---- MODULE Spec2Model ----
(***************************************************************************)
(* Model of the DealAgent price-discovery pipeline.                        *)
(*                                                                         *)
(*   scraper.py  DealScraper: the class-level Chrome driver slot, the      *)
(*               fetch call _make_http_call with its retry loop, the       *)
(*               retailer searches and search_all_retailers.               *)
(*   app.py      search_deals_with_ai: live scraping first, the GPT        *)
(*               generated deals as the fallback; parse_json_response;     *)
(*               check_all_products, the price check job, with the tables  *)
(*               of deals.db; start_scheduler and the sessions of main.    *)
(*                                                                         *)
(* Two specifications share the fetch actions:                             *)
(*   SpecFetch   both threads of the process (the APScheduler job thread   *)
(*               and the Streamlit script thread) call _make_http_call     *)
(*               concurrently; one action per Python statement.            *)
(*   Spec        one caller runs one search_deals_with_ai end to end, the  *)
(*               fetch calls of its retailer searches included.            *)
(* Three specifications share the actions of the price check job, whose   *)
(* searches return any value search_deals_with_ai can return:              *)
(*   SpecPoller  one scheduler runs the job once over a table of products  *)
(*               with alerts on or off.                                    *)
(*   SpecTrack   one dashboard session tracks products while the job of    *)
(*               its scheduler runs (SpecTrackFair: with the fairness of   *)
(*               the job thread).                                          *)
(*   SpecSched   several dashboard sessions, each starting a scheduler.    *)
(*   SpecRuns    the job of one scheduler runs at successive intervals     *)
(*               while the session tracks products (SpecRunsLive: one      *)
(*               tracked product, live scraping, fair job thread).         *)
(* One specification applies the pure extraction functions:                *)
(*   SpecExtract search_amazon, search_bestbuy and search_walmart over     *)
(*               the cards of a page, and the generated deal dicts.        *)
(***************************************************************************)
EXTENDS Integers, Sequences, FiniteSets, Bags, TLC

(* ---------------------------- bounds ----------------------------------- *)
MaxHandles == 2      \* Chrome driver objects that may be constructed in a run
MaxCalls == 2        \* fetch calls made in a run of SpecFetch, all threads together
MaxItems == 2        \* product cards on a fetched results page
MaxPrice == 3        \* prices are 1..MaxPrice
MaxRawLen == 3       \* tokens in a text-generation reply
MaxProducts == 2     \* rows of the products table
MaxSessions == 2     \* dashboard sessions opened in a run
MaxRuns == 2         \* runs of the price check job of one scheduler

(* ------------------------ program constants ---------------------------- *)
max_retries == 3
None == 0            \* the empty driver slot

\* Return values of _make_http_call: None, or the page source.  The product
\* cards in the page source are drawn where BeautifulSoup reads them.
NoPage == "None"
PageSource == "page_source"

Threads == {"poller", "ui"}
Handles == 1..MaxHandles
Prices == 1..MaxPrice

\* search_all_retailers: the fixed retailer list
retailers == <<"Amazon", "Best Buy">>

\* max_results passed by the callers: check_all_products passes 3, the
\* dashboard search passes 5
MaxResultsInputs == {3, 5}

\* A product card of a results page: has_title is whether the title element
\* is found (a card without one is skipped), price is the parsed price.
Cards == [has_title : BOOLEAN, price : Prices]

RECURSIVE SeqsUpTo(_, _)
SeqsUpTo(S, n) ==
  IF n = 0 THEN {<< >>}
  ELSE LET shorter == SeqsUpTo(S, n - 1)
       IN  shorter \cup {Append(s, x) : s \in {q \in shorter : Len(q) = n - 1}, x \in S}

Pages == SeqsUpTo(Cards, MaxItems)

\* Outcomes of a Selenium call on a driver object.
\*   ok        the call returns
\*   wd_dead   WebDriverException whose message contains "invalid session id"
\*             or "chrome not reachable"
\*   wd_other  any other WebDriverException
\*   exc       an exception that is not a WebDriverException
DriverOutcomes == {"ok", "wd_dead", "wd_other", "exc"}

VARIABLES
  _driver,        \* DealScraper._driver: None or a handle
  handles,        \* handle -> "unbuilt" | "live" (constructed, not quit) | "quit"
  deadSeen,       \* handles on which a call raised the dead-handle message
  ctorFailed,     \* a driver construction has failed at some point
  pc,             \* thread -> position in the code
  retry_count,    \* thread -> retry_count of its running _make_http_call
  driver,         \* thread -> local variable driver of _make_http_call
  navCount,       \* thread -> driver.get calls made by the running fetch call
  fetchResult,    \* thread -> return value of the fetch: NoPage or PageSource
  fetchEnd,       \* thread -> how the fetch call that just returned ended
  calls,          \* thread -> fetch calls started (SpecFetch)
  exhaustedBefore,\* thread -> an earlier fetch call of it used up its attempts
  lastError,      \* thread -> what the failed attempt before the current
                  \*           position of its fetch call raised
  SCRAPING_ENABLED, \* app.py: whether "from scraper import ..." succeeded
  max_results,    \* thread -> argument of search_deals_with_ai
  idx,            \* thread -> position of the for loop in the retailer list
  deals,          \* thread -> return value of the retailer search
  all_deals,      \* thread -> all_deals of search_all_retailers
  real_deals,     \* thread -> real_deals of search_deals_with_ai
  raw,            \* thread -> deals_json, the reply of the text generation
  result,         \* thread -> return value of search_deals_with_ai
  genCalls,       \* thread -> chat completion calls made by the search
  aiOutcome,      \* thread -> how the fallback ended
  liveStatus,     \* thread -> what scrape_product_deals returned to the search
  produced,       \* thread -> per retailer searched: how it ended, its deals
  needDelay,      \* thread -> a retailer was searched and no sleep followed yet
  lastFetch,      \* thread -> inside a retailer search: how its fetch call
                  \*           ended and what the requests fallback gave
  products,       \* table products: row i is the product with id i
  price_history,  \* table price_history, in insertion order
  alerts,         \* table alerts, in insertion order
  scheduler_started, \* session -> 'scheduler_started' in st.session_state
  ppc,            \* session -> position of the price check job of its scheduler
  batch,          \* session -> products, the rows the job fetched
  pidx,           \* session -> position of the for loop in products
  job_deals,      \* session -> deals of check_all_products
  best_deal,      \* session -> best_deal of check_all_products
  analysis,       \* session -> analysis of check_all_products
  plog,           \* session -> per product of the run: what its search and
                  \*            its timing analysis gave
  needPause,      \* session -> a product was processed and no sleep followed yet
  runs,           \* session -> runs of the job its scheduler has completed
  ex_src,         \* the retailer search (or the generator) that last returned
  ex_in,          \* the results page that search was given
  ex_limit,       \* its max_results argument
  ex_out          \* the list it returned

fetchVars == <<_driver, handles, deadSeen, ctorFailed, pc, retry_count, driver,
               navCount, fetchResult, fetchEnd, calls, exhaustedBefore,
               lastError>>

searchVars == <<SCRAPING_ENABLED, max_results, idx, deals, all_deals,
                real_deals, raw, result, genCalls, aiOutcome, liveStatus,
                produced, needDelay, lastFetch>>

fetchVars_but_pc == <<_driver, handles, deadSeen, ctorFailed, retry_count,
                      driver, navCount, fetchResult, fetchEnd, calls,
                      exhaustedBefore, lastError>>

pollerVars == <<products, price_history, alerts, scheduler_started, ppc,
                batch, pidx, job_deals, best_deal, analysis, plog, needPause,
                runs>>

extractVars == <<ex_src, ex_in, ex_limit, ex_out>>

vars == <<fetchVars, searchVars, pollerVars, extractVars>>

(* ------------------------------ helpers -------------------------------- *)
Min(a, b) == IF a < b THEN a ELSE b

LiveHandles == {h \in Handles : handles[h] = "live"}
Unbuilt == {h \in Handles : handles[h] = "unbuilt"}
NextHandle == CHOOSE h \in Unbuilt : \A g \in Unbuilt : h <= g

\* What a call on handle h can do: a driver that was quit, or that already
\* reported a dead session, never answers again.
OutcomesOn(h) ==
  IF handles[h] = "live" /\ h \notin deadSeen THEN DriverOutcomes
  ELSE DriverOutcomes \ {"ok"}

\* Leaving _make_http_call with return value r.
ReturnFetch(t, r, how) ==
  /\ fetchResult' = [fetchResult EXCEPT ![t] = r]
  /\ fetchEnd' = [fetchEnd EXCEPT ![t] = how]
  /\ pc' = [pc EXCEPT ![t] = "fetch_ret"]

\* Variant of RaiseInFetch: an exception that is not a WebDriverException is
\* retried like one.
RaiseInFetchRetryAll(t, h, o) ==
  /\ lastError' = [lastError EXCEPT ![t] = o]
  /\ IF o = "wd_dead"
     THEN /\ deadSeen' = deadSeen \cup {h}
          /\ pc' = [pc EXCEPT ![t] = "cl_check"]
          /\ UNCHANGED <<fetchResult, fetchEnd>>
     ELSE /\ pc' = [pc EXCEPT ![t] = "mh_incr"]
          /\ UNCHANGED <<deadSeen, fetchResult, fetchEnd>>

\* Entering the except clauses of _make_http_call after a driver call on h
\* ended with outcome o (o # "ok").
RaiseInFetch(t, h, o) ==
  /\ lastError' = [lastError EXCEPT ![t] = o]
  /\ IF o = "wd_dead"
     THEN /\ deadSeen' = deadSeen \cup {h}
          /\ pc' = [pc EXCEPT ![t] = "cl_check"]
          /\ UNCHANGED <<fetchResult, fetchEnd>>
     ELSE IF o = "wd_other"
     THEN /\ pc' = [pc EXCEPT ![t] = "mh_incr"]
          /\ UNCHANGED <<deadSeen, fetchResult, fetchEnd>>
     ELSE /\ ReturnFetch(t, NoPage, "exception")
          /\ UNCHANGED deadSeen

(* ------------------- DealScraper._get_chrome_driver --------------------- *)
\* if DealScraper._driver is None: construct, else reuse
GetDriverCheck(t) ==
  /\ pc[t] = "gd_check"
  /\ pc' = [pc EXCEPT ![t] = IF _driver = None THEN "gd_construct" ELSE "gd_return"]
  /\ UNCHANGED <<_driver, handles, deadSeen, ctorFailed, retry_count, driver,
                 navCount, fetchResult, fetchEnd, calls, exhaustedBefore, lastError, searchVars, pollerVars, extractVars>>

\* DealScraper._driver = webdriver.Chrome(...); an exception lands in the
\* except clause, which clears the slot.
GetDriverConstruct(t) ==
  /\ pc[t] = "gd_construct"
  /\ \E ok \in BOOLEAN :
       IF ok /\ Unbuilt # {}
       THEN /\ handles' = [handles EXCEPT ![NextHandle] = "live"]
            /\ _driver' = NextHandle
            /\ pc' = [pc EXCEPT ![t] = "gd_setup"]
            /\ UNCHANGED ctorFailed
       ELSE /\ _driver' = None
            /\ ctorFailed' = TRUE
            /\ pc' = [pc EXCEPT ![t] = "gd_return"]
            /\ UNCHANGED handles
  /\ UNCHANGED <<deadSeen, retry_count, driver, navCount, fetchResult,
                 fetchEnd, calls, exhaustedBefore, lastError, searchVars, pollerVars, extractVars>>

\* execute_script, set_page_load_timeout, implicitly_wait on the slot; a
\* failure (or a slot emptied by another thread) lands in the same except
\* clause, which clears the slot without quitting the driver.
GetDriverSetup(t) ==
  /\ pc[t] = "gd_setup"
  /\ \E ok \in BOOLEAN :
       IF ok /\ _driver # None
       THEN UNCHANGED <<_driver, ctorFailed>>
       ELSE /\ _driver' = None
            /\ ctorFailed' = TRUE
  /\ pc' = [pc EXCEPT ![t] = "gd_return"]
  /\ UNCHANGED <<handles, deadSeen, retry_count, driver, navCount,
                 fetchResult, fetchEnd, calls, exhaustedBefore, lastError, searchVars, pollerVars, extractVars>>

\* return DealScraper._driver, assigned to the local driver
GetDriverReturn(t) ==
  /\ pc[t] = "gd_return"
  /\ driver' = [driver EXCEPT ![t] = _driver]
  /\ pc' = [pc EXCEPT ![t] = "mh_check"]
  /\ lastError' = [lastError EXCEPT ![t] = "none"]
  /\ UNCHANGED <<_driver, handles, deadSeen, ctorFailed, retry_count,
                 navCount, fetchResult, fetchEnd, calls, exhaustedBefore, searchVars, pollerVars, extractVars>>

(* --------------------- DealScraper._cleanup_driver ---------------------- *)
CleanupCheck(t) ==
  /\ pc[t] = "cl_check"
  /\ pc' = [pc EXCEPT ![t] = IF _driver # None THEN "cl_quit" ELSE "mh_reset"]
  /\ UNCHANGED <<_driver, handles, deadSeen, ctorFailed, retry_count, driver,
                 navCount, fetchResult, fetchEnd, calls, exhaustedBefore, lastError, searchVars, pollerVars, extractVars>>

\* cls._driver.quit(); whatever it raises is swallowed by the bare except
CleanupQuit(t) ==
  /\ pc[t] = "cl_quit"
  /\ \E ok \in BOOLEAN :
       IF ok /\ _driver # None
       THEN handles' = [handles EXCEPT ![_driver] = "quit"]
       ELSE UNCHANGED handles
  /\ pc' = [pc EXCEPT ![t] = "cl_finally"]
  /\ UNCHANGED <<_driver, deadSeen, ctorFailed, retry_count, driver, navCount,
                 fetchResult, fetchEnd, calls, exhaustedBefore, lastError, searchVars, pollerVars, extractVars>>

CleanupFinally(t) ==
  /\ pc[t] = "cl_finally"
  /\ _driver' = None
  /\ pc' = [pc EXCEPT ![t] = "mh_reset"]
  /\ UNCHANGED <<handles, deadSeen, ctorFailed, retry_count, driver, navCount,
                 fetchResult, fetchEnd, calls, exhaustedBefore, lastError, searchVars, pollerVars, extractVars>>

(* ---------------------- DealScraper._make_http_call --------------------- *)
\* max_retries = 3; retry_count = 0; first test of the while loop
BeginFetch(t) ==
  /\ retry_count' = [retry_count EXCEPT ![t] = 0]
  /\ navCount' = [navCount EXCEPT ![t] = 0]
  /\ driver' = [driver EXCEPT ![t] = None]
  /\ pc' = [pc EXCEPT ![t] = "gd_check"]

\* The caller has taken the return value: the locals of the call are gone.
EndFetch(t) ==
  /\ retry_count' = [retry_count EXCEPT ![t] = 0]
  /\ navCount' = [navCount EXCEPT ![t] = 0]
  /\ driver' = [driver EXCEPT ![t] = None]
  /\ fetchResult' = [fetchResult EXCEPT ![t] = NoPage]
  /\ fetchEnd' = [fetchEnd EXCEPT ![t] = "none"]
  /\ lastError' = [lastError EXCEPT ![t] = "none"]

\* if driver is None: return None
CheckDriver(t) ==
  /\ pc[t] = "mh_check"
  /\ IF driver[t] = None
     THEN ReturnFetch(t, NoPage, "no_driver")
     ELSE /\ pc' = [pc EXCEPT ![t] = "mh_get"]
          /\ UNCHANGED <<fetchResult, fetchEnd>>
  /\ UNCHANGED <<_driver, handles, deadSeen, ctorFailed, retry_count, driver,
                 navCount, calls, exhaustedBefore, lastError, searchVars, pollerVars, extractVars>>

\* driver.get(url)
Navigate(t) ==
  /\ pc[t] = "mh_get"
  /\ navCount' = [navCount EXCEPT ![t] = @ + 1]
  /\ \E o \in OutcomesOn(driver[t]) :
       IF o = "ok"
       THEN /\ pc' = [pc EXCEPT ![t] = "mh_sleep"]
            /\ UNCHANGED <<deadSeen, fetchResult, fetchEnd, lastError>>
       ELSE RaiseInFetch(t, driver[t], o)
  /\ UNCHANGED <<_driver, handles, ctorFailed, retry_count, driver, calls,
                 exhaustedBefore, searchVars, pollerVars, extractVars>>

\* time.sleep(wait_time)
WaitForPage(t) ==
  /\ pc[t] = "mh_sleep"
  /\ pc' = [pc EXCEPT ![t] = "mh_read"]
  /\ UNCHANGED <<_driver, handles, deadSeen, ctorFailed, retry_count, driver,
                 navCount, fetchResult, fetchEnd, calls, exhaustedBefore, lastError, searchVars, pollerVars, extractVars>>

\* page_source = driver.page_source; return page_source
ReadPage(t) ==
  /\ pc[t] = "mh_read"
  /\ \E o \in OutcomesOn(driver[t]) :
       IF o = "ok"
       THEN /\ ReturnFetch(t, PageSource, "content")
            /\ UNCHANGED <<deadSeen, lastError>>
       ELSE RaiseInFetch(t, driver[t], o)
  /\ UNCHANGED <<_driver, handles, ctorFailed, retry_count, driver, navCount,
                 calls, exhaustedBefore, searchVars, pollerVars, extractVars>>

\* DealScraper._driver = None after self._cleanup_driver()
ResetDriver(t) ==
  /\ pc[t] = "mh_reset"
  /\ _driver' = None
  /\ pc' = [pc EXCEPT ![t] = "mh_incr"]
  /\ UNCHANGED <<handles, deadSeen, ctorFailed, retry_count, driver, navCount,
                 fetchResult, fetchEnd, calls, exhaustedBefore, lastError, searchVars, pollerVars, extractVars>>

\* Variant of IncrRetry: the attempts are compared with <= instead of <.
IncrRetryOffByOne(t) ==
  /\ pc[t] = "mh_incr"
  /\ retry_count' = [retry_count EXCEPT ![t] = @ + 1]
  /\ IF retry_count[t] + 1 <= max_retries
     THEN /\ pc' = [pc EXCEPT ![t] = "mh_backoff"]
          /\ UNCHANGED <<fetchResult, fetchEnd>>
     ELSE ReturnFetch(t, NoPage, "exhausted")
  /\ UNCHANGED <<_driver, handles, deadSeen, ctorFailed, driver, navCount,
                 calls, exhaustedBefore, lastError, searchVars, pollerVars, extractVars>>

\* retry_count += 1; sleep and loop while retry_count < max_retries, else
\* return None
IncrRetry(t) ==
  /\ pc[t] = "mh_incr"
  /\ retry_count' = [retry_count EXCEPT ![t] = @ + 1]
  /\ IF retry_count[t] + 1 < max_retries
     THEN /\ pc' = [pc EXCEPT ![t] = "mh_backoff"]
          /\ UNCHANGED <<fetchResult, fetchEnd>>
     ELSE ReturnFetch(t, NoPage, "exhausted")
  /\ UNCHANGED <<_driver, handles, deadSeen, ctorFailed, driver, navCount,
                 calls, exhaustedBefore, lastError, searchVars, pollerVars, extractVars>>

\* time.sleep(2), then the while test and the next attempt
Backoff(t) ==
  /\ pc[t] = "mh_backoff"
  /\ pc' = [pc EXCEPT ![t] = "gd_check"]
  /\ UNCHANGED <<_driver, handles, deadSeen, ctorFailed, retry_count, driver,
                 navCount, fetchResult, fetchEnd, calls, exhaustedBefore, lastError, searchVars, pollerVars, extractVars>>

(* ----------------- SpecFetch: concurrent fetch callers ------------------ *)
\* A retailer search of the thread calls self._make_http_call(search_url).
CallerStart(t) ==
  /\ pc[t] = "idle"
  /\ calls["poller"] + calls["ui"] < MaxCalls
  /\ calls' = [calls EXCEPT ![t] = @ + 1]
  /\ BeginFetch(t)
  /\ UNCHANGED <<_driver, handles, deadSeen, ctorFailed, fetchResult,
                 fetchEnd, exhaustedBefore, lastError, searchVars, pollerVars, extractVars>>

\* The call returns to the retailer search (page_content = ...).
CallerReturn(t) ==
  /\ pc[t] = "fetch_ret"
  /\ exhaustedBefore' = [exhaustedBefore EXCEPT ![t] = @ \/ fetchEnd[t] = "exhausted"]
  /\ EndFetch(t)
  /\ pc' = [pc EXCEPT ![t] = "idle"]
  /\ UNCHANGED <<_driver, handles, deadSeen, ctorFailed, calls, searchVars, pollerVars, extractVars>>

InitFetchSession ==
  /\ _driver = None
  /\ handles = [h \in Handles |-> "unbuilt"]
  /\ deadSeen = {}
  /\ ctorFailed = FALSE
  /\ retry_count = [t \in Threads |-> 0]
  /\ driver = [t \in Threads |-> None]
  /\ navCount = [t \in Threads |-> 0]
  /\ fetchResult = [t \in Threads |-> NoPage]
  /\ fetchEnd = [t \in Threads |-> "none"]
  /\ calls = [t \in Threads |-> 0]
  /\ exhaustedBefore = [t \in Threads |-> FALSE]
  /\ lastError = [t \in Threads |-> "none"]


(* ------------------- pure functions of the search ----------------------- *)
\* A deal as the retailer searches build it.
Deal(r, p) == [retailer |-> r, price |-> p]

\* soup.find_all(..., limit=max_results), then one deal per card that has a
\* title; a card without one is skipped (continue).
ExtractDeals(r, page, limit) ==
  LET cards == SubSeq(page, 1, Min(limit, Len(page)))
      good == SelectSeq(cards, LAMBDA c : c.has_title)
  IN  [i \in 1..Len(good) |-> Deal(r, good[i].price)]

\* list.sort(key=lambda x: x['price']): ascending and stable.  InsertByPrice
\* puts d behind every element whose price is not greater.
InsertByPrice(s, d) ==
  LET k == Cardinality({i \in 1..Len(s) : s[i].price <= d.price})
  IN  SubSeq(s, 1, k) \o <<d>> \o SubSeq(s, k + 1, Len(s))

\* Variant of SortByPrice: the list is returned in the order of arrival.
SortByPriceUnsorted(s) == s

RECURSIVE SortByPrice(_)
SortByPrice(s) ==
  IF s = << >> THEN << >>
  ELSE InsertByPrice(SortByPrice(SubSeq(s, 1, Len(s) - 1)), s[Len(s)])

\* deals[:max_results]
Truncate(s, n) == SubSeq(s, 1, Min(n, Len(s)))

\* The reply of the text generation is a sequence of tokens:
\*   "ws"     whitespace            "fence"  three backquotes
\*   "json"   the word json         "x"      text that is not JSON
\*   "A","E"  a JSON array of deals ("E" is the empty array)
Tokens == {"ws", "fence", "json", "x", "A", "E"}
Payloads == {"A", "E"}
RawTexts == SeqsUpTo(Tokens, MaxRawLen)

\* json.loads of a payload token
JsonValue(tok) ==
  IF tok = "A" THEN <<Deal("Target", 2), Deal("Walmart", 1)>> ELSE << >>

\* str.strip()
RECURSIVE LStrip(_)
LStrip(s) == IF s # << >> /\ Head(s) = "ws" THEN LStrip(Tail(s)) ELSE s
RECURSIVE RStrip(_)
RStrip(s) ==
  IF s # << >> /\ s[Len(s)] = "ws" THEN RStrip(SubSeq(s, 1, Len(s) - 1)) ELSE s
Strip(s) == RStrip(LStrip(s))

\* parse_json_response: strip, drop an opening ```json or ```, drop a closing
\* ```, strip, json.loads.  ok = FALSE stands for json.JSONDecodeError.
parse_json_response(json_string) ==
  LET s1 == Strip(json_string)
      s2 == IF Len(s1) >= 2 /\ s1[1] = "fence" /\ s1[2] = "json"
            THEN SubSeq(s1, 3, Len(s1))
            ELSE IF Len(s1) >= 1 /\ s1[1] = "fence"
            THEN Tail(s1)
            ELSE s1
      s3 == IF s2 # << >> /\ s2[Len(s2)] = "fence"
            THEN SubSeq(s2, 1, Len(s2) - 1)
            ELSE s2
      s4 == Strip(s3)
  IN  IF Len(s4) = 1 /\ s4[1] \in Payloads
      THEN [ok |-> TRUE, value |-> JsonValue(s4[1])]
      ELSE [ok |-> FALSE, value |-> << >>]

(* ------------------------ search_deals_with_ai -------------------------- *)
Searcher == "ui"

\* The dashboard (or the price check job) calls search_deals_with_ai; with
\* SCRAPING_ENABLED it calls scrape_product_deals, which builds a DealScraper
\* and enters search_all_retailers (all_deals = []).
StartSearch(t) ==
  /\ pc[t] = "sd_idle"
  /\ \E mr \in MaxResultsInputs : max_results' = [max_results EXCEPT ![t] = mr]
  /\ pc' = [pc EXCEPT ![t] = IF SCRAPING_ENABLED THEN "ag_loop" ELSE "ai_call"]
  /\ UNCHANGED <<fetchVars_but_pc, pollerVars, extractVars, lastFetch, SCRAPING_ENABLED, idx, deals, all_deals,
                 real_deals, raw, result, genCalls, aiOutcome, liveStatus,
                 produced, needDelay>>

(* ------------------- DealScraper.search_all_retailers ------------------- *)
\* Outside a retailer search, or before its fetch call has returned.
NoFetch == [fetch |-> "none", fallback |-> "none"]

\* for retailer_name, search_func in retailers:
AggLoop(t) ==
  /\ pc[t] = "ag_loop"
  /\ pc' = [pc EXCEPT ![t] = IF idx[t] <= Len(retailers) THEN "ag_call" ELSE "ag_sort"]
  /\ UNCHANGED <<fetchVars_but_pc, searchVars, pollerVars, extractVars>>

\* deals = search_func(product_name, max_per_retailer): the retailer search
\* starts with page_content = self._make_http_call(search_url)
AggCallSearch(t) ==
  /\ pc[t] = "ag_call"
  /\ BeginFetch(t)
  /\ UNCHANGED <<_driver, handles, deadSeen, ctorFailed, fetchResult,
                 fetchEnd, calls, exhaustedBefore, lastError, searchVars, pollerVars, extractVars>>

\* The retailer search leaves with ret (raised = an exception escaped it).
EndRetailerSearch(t, raised, ret) ==
  /\ deals' = [deals EXCEPT ![t] = ret]
  /\ produced' = [produced EXCEPT ![t] =
                    Append(@, [raised |-> raised, deals |-> ret])]
  /\ needDelay' = [needDelay EXCEPT ![t] = TRUE]
  /\ pc' = [pc EXCEPT ![t] = IF raised THEN "ag_except" ELSE "ag_extend"]

\* search_amazon / search_bestbuy after the fetch: if not page_content ->
\* the requests fallback, else on to BeautifulSoup.
SearchAfterFetch(t) ==
  /\ pc[t] = "fetch_ret"
  /\ pc' = [pc EXCEPT ![t] = IF fetchResult[t] = NoPage THEN "sr_requests" ELSE "sr_extract"]
  /\ lastFetch' = [lastFetch EXCEPT ![t] = [fetch |-> fetchEnd[t], fallback |-> "none"]]
  /\ EndFetch(t)
  /\ UNCHANGED <<_driver, handles, deadSeen, ctorFailed, calls,
                 exhaustedBefore, pollerVars, extractVars, SCRAPING_ENABLED,
                 max_results, idx, deals, all_deals, real_deals, raw, result,
                 genCalls, aiOutcome, liveStatus, produced, needDelay>>

\* Variant of RequestsFallback: an exception of the request escapes the
\* retailer search.
RequestsFallbackUncaught(t) ==
  /\ pc[t] = "sr_requests"
  /\ \E o \in {"raise", "not_200", "200"} :
       /\ lastFetch' = [lastFetch EXCEPT ![t].fallback = o]
       /\ IF o = "200"
          THEN /\ pc' = [pc EXCEPT ![t] = "sr_extract"]
               /\ UNCHANGED <<deals, produced, needDelay>>
          ELSE EndRetailerSearch(t, o = "raise", << >>)
  /\ UNCHANGED <<fetchVars_but_pc, pollerVars, extractVars, SCRAPING_ENABLED, max_results,
                 idx, all_deals, real_deals, raw, result, genCalls, aiOutcome,
                 liveStatus>>

\* response = self.session.get(search_url, timeout=10): it raises (caught by
\* the outer except, return deals), answers with a status other than 200
\* (return deals), or answers 200 with content.
RequestsFallback(t) ==
  /\ pc[t] = "sr_requests"
  /\ \E o \in {"raise", "not_200", "200"} :
       /\ lastFetch' = [lastFetch EXCEPT ![t].fallback = o]
       /\ IF o = "200"
          THEN /\ pc' = [pc EXCEPT ![t] = "sr_extract"]
               /\ UNCHANGED <<deals, produced, needDelay>>
          ELSE EndRetailerSearch(t, FALSE, << >>)
  /\ UNCHANGED <<fetchVars_but_pc, pollerVars, extractVars, SCRAPING_ENABLED, max_results,
                 idx, all_deals, real_deals, raw, result, genCalls, aiOutcome,
                 liveStatus>>

\* BeautifulSoup over the page and the loop over its product cards; return
\* deals.  max_per_retailer is max_results // 3 + 1.  An exception that
\* escapes the retailer search reaches the except clause of the caller.
ExtractAndReturn(t) ==
  /\ pc[t] = "sr_extract"
  /\ \/ \E page \in Pages :
          EndRetailerSearch(t, FALSE,
            ExtractDeals(retailers[idx[t]], page, (max_results[t] \div 3) + 1))
     \/ EndRetailerSearch(t, TRUE, << >>)
  /\ UNCHANGED <<fetchVars_but_pc, pollerVars, extractVars, lastFetch, SCRAPING_ENABLED, max_results,
                 idx, all_deals, real_deals, raw, result, genCalls, aiOutcome,
                 liveStatus>>

\* all_deals.extend([d for d in deals if d is not None])
AggExtend(t) ==
  /\ pc[t] = "ag_extend"
  /\ all_deals' = [all_deals EXCEPT ![t] = @ \o deals[t]]
  /\ pc' = [pc EXCEPT ![t] = "ag_sleep"]
  /\ UNCHANGED <<fetchVars_but_pc, pollerVars, extractVars, lastFetch, SCRAPING_ENABLED, max_results,
                 idx, deals, real_deals, raw, result, genCalls, aiOutcome,
                 liveStatus, produced, needDelay>>

\* time.sleep(2), then the next retailer
AggSleep(t) ==
  /\ pc[t] = "ag_sleep"
  /\ needDelay' = [needDelay EXCEPT ![t] = FALSE]
  /\ idx' = [idx EXCEPT ![t] = @ + 1]
  /\ pc' = [pc EXCEPT ![t] = "ag_loop"]
  /\ lastFetch' = [lastFetch EXCEPT ![t] = NoFetch]
  /\ UNCHANGED <<fetchVars_but_pc, pollerVars, extractVars, SCRAPING_ENABLED, max_results,
                 deals, all_deals, real_deals, raw, result, genCalls,
                 aiOutcome, liveStatus, produced>>

\* Variant of AggExcept: the except clause leaves the loop (break).
AggExceptBreak(t) ==
  /\ pc[t] = "ag_except"
  /\ pc' = [pc EXCEPT ![t] = "ag_sort"]
  /\ UNCHANGED <<fetchVars_but_pc, searchVars, pollerVars, extractVars>>

\* except Exception: print, continue
AggExcept(t) ==
  /\ pc[t] = "ag_except"
  /\ idx' = [idx EXCEPT ![t] = @ + 1]
  /\ pc' = [pc EXCEPT ![t] = "ag_loop"]
  /\ lastFetch' = [lastFetch EXCEPT ![t] = NoFetch]
  /\ UNCHANGED <<fetchVars_but_pc, pollerVars, extractVars, SCRAPING_ENABLED, max_results,
                 deals, all_deals, real_deals, raw, result, genCalls,
                 aiOutcome, liveStatus, produced, needDelay>>

\* all_deals.sort(key=lambda x: x['price']); return all_deals
AggSort(t) ==
  /\ pc[t] = "ag_sort"
  /\ all_deals' = [all_deals EXCEPT ![t] = SortByPrice(@)]
  /\ pc' = [pc EXCEPT ![t] = "sp_return"]
  /\ UNCHANGED <<fetchVars_but_pc, pollerVars, extractVars, lastFetch, SCRAPING_ENABLED, max_results,
                 idx, deals, real_deals, raw, result, genCalls, aiOutcome,
                 liveStatus, produced, needDelay>>

\* scrape_product_deals: return deals[:max_results], assigned to real_deals
ScrapeReturn(t) ==
  /\ pc[t] = "sp_return"
  /\ real_deals' = [real_deals EXCEPT ![t] = Truncate(all_deals[t], max_results[t])]
  /\ pc' = [pc EXCEPT ![t] = "sd_check"]
  /\ UNCHANGED <<fetchVars_but_pc, pollerVars, extractVars, lastFetch, SCRAPING_ENABLED, max_results,
                 idx, deals, all_deals, raw, result, genCalls, aiOutcome,
                 liveStatus, produced, needDelay>>

(* ------------------ search_deals_with_ai, continued --------------------- *)
\* Variant of CheckRealDeals: the live deals are not returned, the search
\* goes on to the generated deals.
CheckRealDealsAlwaysFallback(t) ==
  /\ pc[t] = "sd_check"
  /\ liveStatus' = [liveStatus EXCEPT ![t] =
                      IF Len(real_deals[t]) > 0 THEN "deals" ELSE "empty"]
  /\ pc' = [pc EXCEPT ![t] = "ai_call"]
  /\ UNCHANGED <<fetchVars_but_pc, pollerVars, extractVars, lastFetch, SCRAPING_ENABLED, max_results,
                 idx, deals, all_deals, real_deals, raw, result, genCalls,
                 aiOutcome, produced, needDelay>>

\* if real_deals and len(real_deals) > 0: return real_deals; else the
\* fallback
CheckRealDeals(t) ==
  /\ pc[t] = "sd_check"
  /\ IF Len(real_deals[t]) > 0
     THEN /\ liveStatus' = [liveStatus EXCEPT ![t] = "deals"]
          /\ result' = [result EXCEPT ![t] = real_deals[t]]
          /\ pc' = [pc EXCEPT ![t] = "sd_done"]
     ELSE /\ liveStatus' = [liveStatus EXCEPT ![t] = "empty"]
          /\ pc' = [pc EXCEPT ![t] = "ai_call"]
          /\ UNCHANGED result
  /\ UNCHANGED <<fetchVars_but_pc, pollerVars, extractVars, lastFetch, SCRAPING_ENABLED, max_results,
                 idx, deals, all_deals, real_deals, raw, genCalls, aiOutcome,
                 produced, needDelay>>

\* Variant of GenerateDeals: a reply that does not parse is requested again.
GenerateDealsRetry(t) ==
  /\ pc[t] = "ai_call"
  /\ \/ /\ genCalls' = [genCalls EXCEPT ![t] = @ + 1]
        /\ aiOutcome' = [aiOutcome EXCEPT ![t] = "error"]
        /\ result' = [result EXCEPT ![t] = << >>]
        /\ UNCHANGED raw
     \/ \E text \in RawTexts :
          LET first == parse_json_response(text)
              again == IF first.ok THEN text ELSE <<"A">>
              parsed == parse_json_response(again)
          IN  /\ genCalls' = [genCalls EXCEPT ![t] = @ + (IF first.ok THEN 1 ELSE 2)]
              /\ raw' = [raw EXCEPT ![t] = again]
              /\ aiOutcome' = [aiOutcome EXCEPT ![t] =
                                 IF parsed.ok THEN "parsed" ELSE "parse_error"]
              /\ result' = [result EXCEPT ![t] =
                              IF parsed.ok THEN parsed.value ELSE << >>]
  /\ pc' = [pc EXCEPT ![t] = "sd_done"]
  /\ UNCHANGED <<fetchVars_but_pc, pollerVars, extractVars, lastFetch, SCRAPING_ENABLED, max_results,
                 idx, deals, all_deals, real_deals, liveStatus, produced,
                 needDelay>>

\* The fallback, one straight run of the try block:
\*   response = client.chat.completions.create(...)   (one call)
\*   deals_json = response.choices[0].message.content
\*   deals = parse_json_response(deals_json); return deals
\* except json.JSONDecodeError: return []; except Exception: return []
GenerateDeals(t) ==
  /\ pc[t] = "ai_call"
  /\ genCalls' = [genCalls EXCEPT ![t] = @ + 1]
  /\ \/ /\ aiOutcome' = [aiOutcome EXCEPT ![t] = "error"]
        /\ result' = [result EXCEPT ![t] = << >>]
        /\ UNCHANGED raw
     \/ \E text \in RawTexts :
          LET parsed == parse_json_response(text)
          IN  /\ raw' = [raw EXCEPT ![t] = text]
              /\ aiOutcome' = [aiOutcome EXCEPT ![t] =
                                 IF parsed.ok THEN "parsed" ELSE "parse_error"]
              /\ result' = [result EXCEPT ![t] =
                              IF parsed.ok THEN parsed.value ELSE << >>]
  /\ pc' = [pc EXCEPT ![t] = "sd_done"]
  /\ UNCHANGED <<fetchVars_but_pc, pollerVars, extractVars, lastFetch, SCRAPING_ENABLED, max_results,
                 idx, deals, all_deals, real_deals, liveStatus, produced,
                 needDelay>>

\* The caller takes the returned deals; the locals of the search are gone.
FinishSearch(t) ==
  /\ pc[t] = "sd_done"
  /\ pc' = [pc EXCEPT ![t] = "sd_end"]
  /\ max_results' = [max_results EXCEPT ![t] = 5]
  /\ idx' = [idx EXCEPT ![t] = 1]
  /\ deals' = [deals EXCEPT ![t] = << >>]
  /\ all_deals' = [all_deals EXCEPT ![t] = << >>]
  /\ real_deals' = [real_deals EXCEPT ![t] = << >>]
  /\ raw' = [raw EXCEPT ![t] = << >>]
  /\ result' = [result EXCEPT ![t] = << >>]
  /\ genCalls' = [genCalls EXCEPT ![t] = 0]
  /\ aiOutcome' = [aiOutcome EXCEPT ![t] = "none"]
  /\ liveStatus' = [liveStatus EXCEPT ![t] = "none"]
  /\ produced' = [produced EXCEPT ![t] = << >>]
  /\ needDelay' = [needDelay EXCEPT ![t] = FALSE]
  /\ UNCHANGED <<fetchVars_but_pc, pollerVars, extractVars, lastFetch, SCRAPING_ENABLED>>

InitSearchVars ==
  /\ max_results = [t \in Threads |-> 5]
  /\ idx = [t \in Threads |-> 1]
  /\ deals = [t \in Threads |-> << >>]
  /\ all_deals = [t \in Threads |-> << >>]
  /\ real_deals = [t \in Threads |-> << >>]
  /\ raw = [t \in Threads |-> << >>]
  /\ result = [t \in Threads |-> << >>]
  /\ genCalls = [t \in Threads |-> 0]
  /\ aiOutcome = [t \in Threads |-> "none"]
  /\ liveStatus = [t \in Threads |-> "none"]
  /\ produced = [t \in Threads |-> << >>]
  /\ needDelay = [t \in Threads |-> FALSE]
  /\ lastFetch = [t \in Threads |-> NoFetch]

(* --------------------------- tables of deals.db ------------------------- *)
Sessions == 1..MaxSessions

\* Target prices of the tracked products: one value inside the price range,
\* so that cheapest prices below it, equal to it and above it all occur.
TargetPrices == {2}

ProductRows == [target_price : TargetPrices, alert_enabled : BOOLEAN]
ProductTables == [1..MaxProducts -> ProductRows]

NoDeal == [retailer |-> "none", price |-> 0]

\* add_product: INSERT INTO products; alert_enabled takes its default, 1
add_product(table, target_price) ==
  Append(table, [target_price |-> target_price, alert_enabled |-> TRUE])

\* Variant of add_price_record: the row replaces the rows the product has
\* (INSERT OR REPLACE keyed by the product).
replace_price_record(table, product_id, deal, caller, s) ==
  Append(SelectSeq(table, LAMBDA row : row.product_id # product_id),
         [product_id |-> product_id, retailer |-> deal.retailer,
          price |-> deal.price, caller |-> caller, session |-> s])

\* add_price_record: INSERT INTO price_history.  The url is a field of the
\* same deal as retailer and price.  The fields caller and session are not
\* columns of the table: they keep which caller inserted the row.
add_price_record(table, product_id, deal, caller, s) ==
  Append(table, [product_id |-> product_id, retailer |-> deal.retailer,
                 price |-> deal.price, caller |-> caller, session |-> s])

\* Variant of create_alert: no second alert of a type for a product
\* (INSERT OR IGNORE keyed by product and type).
create_alert_once(table, product_id, alert_type, deal, s) ==
  IF \E i \in 1..Len(table) :
       table[i].product_id = product_id /\ table[i].alert_type = alert_type
  THEN table
  ELSE Append(table, [product_id |-> product_id, alert_type |-> alert_type,
                      retailer |-> deal.retailer, price |-> deal.price,
                      session |-> s])

\* create_alert: INSERT INTO alerts.  A price alert message names the price
\* and the retailer of the deal; a timing alert message names neither.
create_alert(table, product_id, alert_type, deal, s) ==
  Append(table, [product_id |-> product_id, alert_type |-> alert_type,
                 retailer |-> deal.retailer, price |-> deal.price,
                 session |-> s])

\* Variant of SelectEnabled: the WHERE clause is missing.
SelectAllProducts(table) ==
  [i \in 1..Len(table) |->
     [product_id |-> i, target_price |-> table[i].target_price]]

\* SELECT id, product_name, target_price FROM products WHERE alert_enabled = 1
SelectEnabled(table) ==
  LET ids == SelectSeq([i \in 1..Len(table) |-> i],
                       LAMBDA i : table[i].alert_enabled)
  IN  [k \in 1..Len(ids) |->
         [product_id |-> ids[k], target_price |-> table[ids[k]].target_price]]

(* ------------- return values of search_deals_with_ai -------------------- *)
\* What a retailer search can return for max_results mr.
ExtractorReturns(r, mr) ==
  {ExtractDeals(r, page, (mr \div 3) + 1) : page \in Pages}

\* What scrape_product_deals can return: the sorted, truncated concatenation
\* of what the retailer searches returned (a search that raised adds nothing).
LiveReturns(mr) ==
  {Truncate(SortByPrice(a \o b), mr) :
     a \in ExtractorReturns(retailers[1], mr),
     b \in ExtractorReturns(retailers[2], mr)}

\* What the fallback can return: the parsed reply, or [] after an exception.
GeneratedReturns == {JsonValue(p) : p \in Payloads} \cup {<< >>}

\* What search_deals_with_ai can return: the live deals if there are any,
\* else what the fallback returns.
SearchReturns(mr) ==
  IF SCRAPING_ENABLED
  THEN (LiveReturns(mr) \ {<< >>}) \cup GeneratedReturns
  ELSE GeneratedReturns

\* Variant of MinByPrice: the first deal of the list.
FirstDeal(s) == s[1]

\* min(deals, key=lambda x: x['price']): the first deal of the lowest price
MinByPrice(s) ==
  s[CHOOSE i \in 1..Len(s) :
      /\ \A j \in 1..(i - 1) : s[j].price > s[i].price
      /\ \A j \in (i + 1)..Len(s) : s[j].price >= s[i].price]

(* ------------------ results of analyze_deal_timing ---------------------- *)
\* kind "None": the call or the parse raised (return None); kind "empty":
\* the reply is an empty object; kind "object": the object of the reply,
\* "missing" for a key that is not in it, reasoning = whether the key
\* reasoning is in it.
NoFields == [recommendation |-> "missing", confidence |-> "missing",
             reasoning |-> FALSE]
AnalysisOf(kind, fields) ==
  [kind |-> kind, recommendation |-> fields.recommendation,
   confidence |-> fields.confidence, reasoning |-> fields.reasoning]
Unset == AnalysisOf("unset", NoFields)
Analyses ==
  {AnalysisOf("None", NoFields), AnalysisOf("empty", NoFields)} \cup
  [kind : {"object"},
   recommendation : {"buy_now", "wait", "missing"},
   confidence : {"high", "medium", "low", "missing"},
   reasoning : BOOLEAN]

\* Variant of TimingDecision: the confidence is not tested.
TimingDecisionAnyConfidence(a) ==
  IF a.kind \in {"None", "empty"} THEN "skip"
  ELSE IF a.recommendation = "missing" THEN "raise"
  ELSE IF a.recommendation # "wait" THEN "skip"
  ELSE IF ~a.reasoning THEN "raise"
  ELSE "alert"

\* Variant of TimingDecision: a missing key reads as the value tested for
\* (dict.get with a default) and a missing reasoning as an empty text.
TimingDecisionDefaults(a) ==
  IF a.kind \in {"None", "empty"} THEN "skip"
  ELSE IF a.recommendation \notin {"wait", "missing"} THEN "skip"
  ELSE IF a.confidence \notin {"high", "missing"} THEN "skip"
  ELSE "alert"

\* if analysis and analysis['recommendation'] == 'wait' and
\* analysis['confidence'] == 'high': message = f"... {analysis['reasoning']}"
\* A key that is not there raises KeyError; "and" stops at the first false.
TimingDecision(a) ==
  IF a.kind \in {"None", "empty"} THEN "skip"
  ELSE IF a.recommendation = "missing" THEN "raise"
  ELSE IF a.recommendation # "wait" THEN "skip"
  ELSE IF a.confidence = "missing" THEN "raise"
  ELSE IF a.confidence # "high" THEN "skip"
  ELSE IF ~a.reasoning THEN "raise"
  ELSE "alert"

\* What kind of result a is, by the contract of the timing analysis:
\* wait with high confidence, another well-formed result, or not a result.
TimingClass(a) ==
  IF a.kind \in {"None", "empty"} THEN "malformed"
  ELSE IF a.recommendation = "missing" \/ a.confidence = "missing" \/ ~a.reasoning
  THEN "malformed"
  ELSE IF a.recommendation = "wait" /\ a.confidence = "high" THEN "wait_high"
  ELSE "declined"

(* ------------------------ main and start_scheduler ---------------------- *)
\* The first run of main() in a dashboard session: 'scheduler_started' is
\* not in its session state, so start_scheduler() builds a
\* BackgroundScheduler, starts it and adds the job check_all_products.
OpenSession(u) ==
  /\ ~scheduler_started[u]
  /\ scheduler_started' = [scheduler_started EXCEPT ![u] = TRUE]
  /\ ppc' = [ppc EXCEPT ![u] = "p_wait"]
  /\ UNCHANGED <<fetchVars, searchVars, extractVars, runs, products, price_history, alerts,
                 batch, pidx, job_deals, best_deal, analysis, plog, needPause>>

\* "Track This Product" of a session, after a search that showed deals:
\* add_product, then add_price_record for the cheapest deal shown.
TrackProduct(u) ==
  /\ scheduler_started[u]
  /\ Len(products) < MaxProducts
  /\ \E target_price \in TargetPrices, shown \in SearchReturns(5) \ {<< >>} :
       /\ products' = add_product(products, target_price)
       /\ price_history' = add_price_record(price_history, Len(products) + 1,
                                            MinByPrice(shown), "ui", u)
  /\ UNCHANGED <<fetchVars, searchVars, extractVars, runs, alerts, scheduler_started, ppc,
                 batch, pidx, job_deals, best_deal, analysis, plog, needPause>>

(* --------------------------- check_all_products ------------------------- *)
Cur(s) == batch[s][pidx[s]]

\* The interval trigger of the scheduler of session s runs the job: the
\* SELECT, products = c.fetchall().
JobFire(s) ==
  /\ ppc[s] = "p_wait"
  /\ batch' = [batch EXCEPT ![s] = SelectEnabled(products)]
  /\ pidx' = [pidx EXCEPT ![s] = 1]
  /\ ppc' = [ppc EXCEPT ![s] = "p_loop"]
  /\ UNCHANGED <<fetchVars, searchVars, extractVars, runs, products, price_history, alerts,
                 scheduler_started, job_deals, best_deal, analysis, plog,
                 needPause>>

\* Variant of PollLoop: the SELECT is run again before every product.
PollLoopRefetch(s) ==
  /\ ppc[s] = "p_loop"
  /\ batch' = [batch EXCEPT ![s] = SelectEnabled(products)]
  /\ ppc' = [ppc EXCEPT ![s] =
              IF pidx[s] <= Len(SelectEnabled(products)) THEN "p_search" ELSE "p_end"]
  /\ UNCHANGED <<fetchVars, searchVars, extractVars, runs, products, price_history, alerts,
                 scheduler_started, pidx, job_deals, best_deal,
                 analysis, plog, needPause>>

\* for product_id, product_name, target_price in products:
PollLoop(s) ==
  /\ ppc[s] = "p_loop"
  /\ ppc' = [ppc EXCEPT ![s] = IF pidx[s] <= Len(batch[s]) THEN "p_search" ELSE "p_end"]
  /\ UNCHANGED <<fetchVars, searchVars, extractVars, runs, products, price_history, alerts,
                 scheduler_started, batch, pidx, job_deals, best_deal,
                 analysis, plog, needPause>>

\* deals = search_deals_with_ai(product_name, max_results=3); an exception
\* that escapes the search reaches the except clause of the loop.
PollSearch(s) ==
  /\ ppc[s] = "p_search"
  /\ needPause' = [needPause EXCEPT ![s] = TRUE]
  /\ \/ /\ plog' = [plog EXCEPT ![s] =
                      Append(@, [product_id |-> Cur(s).product_id,
                                 search |-> "raised", timing |-> "not_called"])]
        /\ ppc' = [ppc EXCEPT ![s] = "p_except"]
        /\ UNCHANGED job_deals
     \/ \E found \in SearchReturns(3) :
          /\ job_deals' = [job_deals EXCEPT ![s] = found]
          /\ plog' = [plog EXCEPT ![s] =
                        Append(@, [product_id |-> Cur(s).product_id,
                                   search |-> IF found = << >> THEN "empty" ELSE "deals",
                                   timing |-> "not_called"])]
          /\ ppc' = [ppc EXCEPT ![s] = "p_check"]
  /\ UNCHANGED <<fetchVars, searchVars, extractVars, runs, products, price_history, alerts,
                 scheduler_started, batch, pidx, best_deal, analysis>>

\* if deals: best_deal = min(...); add_price_record(product_id, ...)
PollRecord(s) ==
  /\ ppc[s] = "p_check"
  /\ IF job_deals[s] # << >>
     THEN /\ best_deal' = [best_deal EXCEPT ![s] = MinByPrice(job_deals[s])]
          /\ price_history' = add_price_record(price_history, Cur(s).product_id,
                                               MinByPrice(job_deals[s]), "poller", s)
          /\ ppc' = [ppc EXCEPT ![s] = "p_price"]
     ELSE /\ ppc' = [ppc EXCEPT ![s] = "p_sleep"]
          /\ UNCHANGED <<best_deal, price_history>>
  /\ UNCHANGED <<fetchVars, searchVars, extractVars, runs, products, alerts, scheduler_started,
                 batch, pidx, job_deals, analysis, plog, needPause>>

\* Variant of PollPriceAlert: the price is compared with < instead of <=.
PollPriceAlertStrict(s) ==
  /\ ppc[s] = "p_price"
  /\ IF best_deal[s].price < Cur(s).target_price
     THEN alerts' = create_alert(alerts, Cur(s).product_id, "price_alert",
                                 best_deal[s], s)
     ELSE UNCHANGED alerts
  /\ ppc' = [ppc EXCEPT ![s] = "p_timing"]
  /\ UNCHANGED <<fetchVars, searchVars, extractVars, runs, products, price_history,
                 scheduler_started, batch, pidx, job_deals, best_deal,
                 analysis, plog, needPause>>

\* if best_deal['price'] <= target_price: create_alert(product_id,
\* "price_alert", message)
PollPriceAlert(s) ==
  /\ ppc[s] = "p_price"
  /\ IF best_deal[s].price <= Cur(s).target_price
     THEN alerts' = create_alert(alerts, Cur(s).product_id, "price_alert",
                                 best_deal[s], s)
     ELSE UNCHANGED alerts
  /\ ppc' = [ppc EXCEPT ![s] = "p_timing"]
  /\ UNCHANGED <<fetchVars, searchVars, extractVars, runs, products, price_history,
                 scheduler_started, batch, pidx, job_deals, best_deal,
                 analysis, plog, needPause>>

\* analysis = analyze_deal_timing(product_name, deals).  deals and best_deal
\* are not read again in this pass of the loop.
PollAnalyze(s) ==
  /\ ppc[s] = "p_timing"
  /\ \E a \in Analyses :
       /\ analysis' = [analysis EXCEPT ![s] = a]
       /\ plog' = [plog EXCEPT ![s][Len(plog[s])].timing = TimingClass(a)]
  /\ job_deals' = [job_deals EXCEPT ![s] = << >>]
  /\ best_deal' = [best_deal EXCEPT ![s] = NoDeal]
  /\ ppc' = [ppc EXCEPT ![s] = "p_tcheck"]
  /\ UNCHANGED <<fetchVars, searchVars, extractVars, runs, products, price_history, alerts,
                 scheduler_started, batch, pidx, needPause>>

\* The test of the analysis and create_alert(product_id, "timing_alert", ...)
PollTimingAlert(s) ==
  /\ ppc[s] = "p_tcheck"
  /\ LET decision == TimingDecision(analysis[s])
     IN  /\ IF decision = "alert"
            THEN alerts' = create_alert(alerts, Cur(s).product_id,
                                        "timing_alert", NoDeal, s)
            ELSE UNCHANGED alerts
         /\ ppc' = [ppc EXCEPT ![s] = IF decision = "raise" THEN "p_except" ELSE "p_sleep"]
  /\ analysis' = [analysis EXCEPT ![s] = Unset]
  /\ UNCHANGED <<fetchVars, searchVars, extractVars, runs, products, price_history,
                 scheduler_started, batch, pidx, job_deals, best_deal, plog,
                 needPause>>

\* time.sleep(2), then the next product
PollSleep(s) ==
  /\ ppc[s] = "p_sleep"
  /\ needPause' = [needPause EXCEPT ![s] = FALSE]
  /\ job_deals' = [job_deals EXCEPT ![s] = << >>]
  /\ pidx' = [pidx EXCEPT ![s] = @ + 1]
  /\ ppc' = [ppc EXCEPT ![s] = "p_loop"]
  /\ UNCHANGED <<fetchVars, searchVars, extractVars, runs, products, price_history, alerts,
                 scheduler_started, batch, best_deal, analysis, plog>>

\* Variant of PollExcept: the except clause leaves the loop (break).
PollExceptBreak(s) ==
  /\ ppc[s] = "p_except"
  /\ ppc' = [ppc EXCEPT ![s] = "p_end"]
  /\ UNCHANGED <<fetchVars, searchVars, extractVars, runs, products, price_history, alerts,
                 scheduler_started, batch, pidx, job_deals, best_deal,
                 analysis, plog, needPause>>

\* except Exception: print, continue
PollExcept(s) ==
  /\ ppc[s] = "p_except"
  /\ pidx' = [pidx EXCEPT ![s] = @ + 1]
  /\ ppc' = [ppc EXCEPT ![s] = "p_loop"]
  /\ UNCHANGED <<fetchVars, searchVars, extractVars, runs, products, price_history, alerts,
                 scheduler_started, batch, job_deals, best_deal, analysis,
                 plog, needPause>>

\* check_all_products has returned; five minutes later the interval trigger
\* of the scheduler is due again.  The locals of the run are gone.
NextInterval(s) ==
  /\ ppc[s] = "p_end"
  /\ runs[s] + 1 < MaxRuns
  /\ runs' = [runs EXCEPT ![s] = @ + 1]
  /\ ppc' = [ppc EXCEPT ![s] = "p_wait"]
  /\ batch' = [batch EXCEPT ![s] = << >>]
  /\ pidx' = [pidx EXCEPT ![s] = 1]
  /\ job_deals' = [job_deals EXCEPT ![s] = << >>]
  /\ best_deal' = [best_deal EXCEPT ![s] = NoDeal]
  /\ analysis' = [analysis EXCEPT ![s] = Unset]
  /\ plog' = [plog EXCEPT ![s] = << >>]
  /\ needPause' = [needPause EXCEPT ![s] = FALSE]
  /\ UNCHANGED <<fetchVars, searchVars, extractVars, products, price_history,
                 alerts, scheduler_started>>

\* The steps of the job of the scheduler of session s.
JobStep(s) ==
  \/ JobFire(s)
  \/ PollLoop(s)
  \/ PollSearch(s)
  \/ PollRecord(s)
  \/ PollPriceAlert(s)
  \/ PollAnalyze(s)
  \/ PollTimingAlert(s)
  \/ PollSleep(s)
  \/ PollExcept(s)

\* No session was opened, no job runs.
InitPollerVars ==
  /\ price_history = << >>
  /\ alerts = << >>
  /\ scheduler_started = [s \in Sessions |-> FALSE]
  /\ ppc = [s \in Sessions |-> "p_none"]
  /\ batch = [s \in Sessions |-> << >>]
  /\ pidx = [s \in Sessions |-> 1]
  /\ job_deals = [s \in Sessions |-> << >>]
  /\ best_deal = [s \in Sessions |-> NoDeal]
  /\ analysis = [s \in Sessions |-> Unset]
  /\ plog = [s \in Sessions |-> << >>]
  /\ needPause = [s \in Sessions |-> FALSE]
  /\ runs = [s \in Sessions |-> 0]

(* =============== the retailer searches, card by card ==================== *)
\* What the retailer searches read from one product card (or one item of the
\* Walmart JSON): for a price text, a missing element, a text float() cannot
\* parse, or the number parsed.
Missing == -1
Bad == -2
CardPrices == 1..(MaxPrice + 1)
PriceTexts == {Missing, Bad} \cup CardPrices

\* title       the title element is found
\* price       the price text
\* orig_elem   the element that holds the listed original price is found
\* orig        the listed original price text (wasPrice for Walmart)
\* link        the link element is found
Item(title, price, orig_elem, orig, link) ==
  [title |-> title, price |-> price, orig_elem |-> orig_elem, orig |-> orig,
   link |-> link]

QualityTiers == {"Excellent", "Good", "Fair"}

\* deal_quality as the retailer searches compute it from discount_percentage
DealQuality(discount_percentage) ==
  IF discount_percentage >= 30 THEN "Excellent"
  ELSE IF discount_percentage >= 15 THEN "Good"
  ELSE "Fair"

\* int(((original_price - price) / original_price) * 100): int() truncates.
\* (The quotient is computed exactly here, not in floating point.)
TruncatedPercent(price, original_price) ==
  ((original_price - price) * 100) \div original_price

\* discount_percentage of search_amazon and search_bestbuy
DiscountPercentage(price, original_price) ==
  IF original_price > price THEN TruncatedPercent(price, original_price) ELSE 0

\* discount_percentage of _parse_walmart_next_data
WalmartDiscountPercentage(price, original_price) ==
  IF original_price > price /\ price > 0
  THEN TruncatedPercent(price, original_price) ELSE 0

\* The dict a retailer search appends for a card.
DealDict(r, price, original_price, discount_percentage) ==
  [retailer |-> r, price |-> price, original_price |-> original_price,
   discount_percentage |-> discount_percentage,
   deal_quality |-> DealQuality(discount_percentage)]

FullDeal(r, price, original_price) ==
  DealDict(r, price, original_price, DiscountPercentage(price, original_price))

\* The None _parse_walmart_product returns, as an entry of a deals list.
NoneEntry ==
  [retailer |-> "None", price |-> 0, original_price |-> 0,
   discount_percentage |-> 0, deal_quality |-> "None"]

\* search_amazon, the body of its loop: the deals one card adds.  A card
\* without title or price element is skipped; so is one whose price text does
\* not parse and one without the original-price element (.find on None
\* raises, the per-card except continues).
AmazonCard(i) ==
  IF ~i.title \/ i.price \notin CardPrices \/ ~i.orig_elem THEN << >>
  ELSE <<FullDeal("Amazon", i.price,
                  IF i.orig \in CardPrices THEN i.orig ELSE i.price)>>

\* search_bestbuy, the body of its loop.  A card whose link element is
\* missing is skipped (.find on None raises).
BestBuyCard(i) ==
  IF ~i.title \/ i.price \notin CardPrices \/ ~i.link THEN << >>
  ELSE <<FullDeal("Best Buy", i.price,
                  IF i.orig \in CardPrices THEN i.orig ELSE i.price)>>

\* _parse_walmart_next_data as search_walmart uses it: None (nothing added)
\* when it raises; a missing price is 0; wasPrice replaces the original price
\* only when it is above the price.
WalmartNextItem(i) ==
  IF i.price = Bad \/ i.orig = Bad THEN << >>
  ELSE LET price == IF i.price = Missing THEN 0 ELSE i.price
           original_price ==
             IF i.orig \in CardPrices /\ i.orig > price THEN i.orig ELSE price
       IN  <<DealDict("Walmart", price, original_price,
                      WalmartDiscountPercentage(price, original_price))>>

\* _parse_walmart_product as the JSON-LD fallback of search_walmart uses it:
\* its return value is appended as it is, the None of a failed parse too.
WalmartLdItem(i) ==
  IF i.price = Bad THEN <<NoneEntry>>
  ELSE LET price == IF i.price = Missing THEN 0 ELSE i.price
       IN  <<DealDict("Walmart", price, price, 0)>>

\* The deals list after the loop: what each card added, in card order.
RECURSIVE Flatten(_)
Flatten(ss) ==
  IF ss = << >> THEN << >> ELSE Head(ss) \o Flatten(Tail(ss))

EachCard(cards, limit) == Truncate(cards, limit)

\* A results page: the product cards (items of __NEXT_DATA__ for Walmart) and,
\* for Walmart, the JSON-LD product scripts.
Page(items, ld) == [items |-> items, ld |-> ld]

search_amazon(page, limit) ==
  LET cards == EachCard(page.items, limit)
  IN  Flatten([k \in 1..Len(cards) |-> AmazonCard(cards[k])])

search_bestbuy(page, limit) ==
  LET cards == EachCard(page.items, limit)
  IN  Flatten([k \in 1..Len(cards) |-> BestBuyCard(cards[k])])

search_walmart(page, limit) ==
  LET stacks == EachCard(page.items, limit)
      from_next == Flatten([k \in 1..Len(stacks) |-> WalmartNextItem(stacks[k])])
      scripts == EachCard(page.ld, limit)
      from_ld == Flatten([k \in 1..Len(scripts) |-> WalmartLdItem(scripts[k])])
  IN  IF from_next # << >> THEN Truncate(from_next, limit)
      ELSE Truncate(from_ld, limit)

\* The retailers DealScraper has a search method for.
ExtractorNames == {"Amazon", "Best Buy", "Walmart"}

\* The cards each retailer search tells apart.
AmazonItems ==
  {Item(FALSE, Missing, FALSE, Missing, TRUE)}
    \cup {Item(TRUE, p, FALSE, Missing, TRUE) : p \in PriceTexts}
    \cup {Item(TRUE, p, TRUE, o, TRUE) : p \in CardPrices, o \in PriceTexts}

BestBuyItems ==
  {Item(FALSE, Missing, TRUE, Missing, TRUE)}
    \cup {Item(TRUE, p, TRUE, Missing, TRUE) : p \in {Missing, Bad}}
    \cup {Item(TRUE, p, TRUE, o, l) : p \in CardPrices, o \in PriceTexts, l \in BOOLEAN}

WalmartItems == {Item(TRUE, p, TRUE, w, TRUE) : p \in PriceTexts, w \in PriceTexts}

WalmartLdItems == {Item(TRUE, p, TRUE, Missing, TRUE) : p \in {Missing, Bad, 1}}

\* max_results of a retailer search
Limits == {1, 2}

\* The deals of a text-generation reply, as parse_json_response returns them:
\* discount_percentage and deal_quality are whatever the reply holds.
GeneratedDicts ==
  [retailer : {"Target"}, price : {1}, original_price : {2},
   discount_percentage : {0, 15, 30}, deal_quality : QualityTiers]

NoPageRead == Page(<< >>, << >>)

\* search_amazon parses a fetched results page.
SearchAmazon ==
  /\ ex_src = "none"
  /\ \E items \in SeqsUpTo(AmazonItems, MaxItems), limit \in Limits :
       /\ ex_in' = Page(items, << >>)
       /\ ex_limit' = limit
       /\ ex_out' = search_amazon(Page(items, << >>), limit)
  /\ ex_src' = "Amazon"
  /\ UNCHANGED <<fetchVars, searchVars, pollerVars>>

\* search_bestbuy parses a fetched results page.
SearchBestBuy ==
  /\ ex_src = "none"
  /\ \E items \in SeqsUpTo(BestBuyItems, MaxItems), limit \in Limits :
       /\ ex_in' = Page(items, << >>)
       /\ ex_limit' = limit
       /\ ex_out' = search_bestbuy(Page(items, << >>), limit)
  /\ ex_src' = "Best Buy"
  /\ UNCHANGED <<fetchVars, searchVars, pollerVars>>

\* search_walmart parses a fetched results page.
SearchWalmart ==
  /\ ex_src = "none"
  /\ \E items \in SeqsUpTo(WalmartItems, MaxItems),
        ld \in SeqsUpTo(WalmartLdItems, MaxItems), limit \in Limits :
       /\ ex_in' = Page(items, ld)
       /\ ex_limit' = limit
       /\ ex_out' = search_walmart(Page(items, ld), limit)
  /\ ex_src' = "Walmart"
  /\ UNCHANGED <<fetchVars, searchVars, pollerVars>>

\* search_deals_with_ai returns the deals of a text-generation reply.
ReturnGenerated ==
  /\ ex_src = "none"
  /\ \E d \in GeneratedDicts : ex_out' = <<d>>
  /\ ex_src' = "generated"
  /\ ex_in' = NoPageRead
  /\ ex_limit' = 0
  /\ UNCHANGED <<fetchVars, searchVars, pollerVars>>

\* The caller takes the list.
TakeDeals ==
  /\ ex_src # "none"
  /\ ex_src' = "none"
  /\ ex_in' = NoPageRead
  /\ ex_limit' = 0
  /\ ex_out' = << >>
  /\ UNCHANGED <<fetchVars, searchVars, pollerVars>>

InitExtractVars ==
  /\ ex_src = "none"
  /\ ex_in = NoPageRead
  /\ ex_limit = 0
  /\ ex_out = << >>

InitFetch ==
  /\ InitFetchSession
  /\ InitSearchVars
  /\ InitPollerVars
  /\ InitExtractVars
  /\ products = << >>
  /\ SCRAPING_ENABLED = TRUE
  /\ pc = [t \in Threads |-> "idle"]

NextFetch ==
  \E t \in Threads :
    \/ CallerStart(t)
    \/ CallerReturn(t)
    \/ GetDriverCheck(t)
    \/ GetDriverConstruct(t)
    \/ GetDriverSetup(t)
    \/ GetDriverReturn(t)
    \/ CheckDriver(t)
    \/ Navigate(t)
    \/ WaitForPage(t)
    \/ ReadPage(t)
    \/ CleanupCheck(t)
    \/ CleanupQuit(t)
    \/ CleanupFinally(t)
    \/ ResetDriver(t)
    \/ IncrRetry(t)
    \/ Backoff(t)

SpecFetch == InitFetch /\ [][NextFetch]_vars

Init ==
  /\ InitFetchSession
  /\ InitSearchVars
  /\ InitPollerVars
  /\ InitExtractVars
  /\ products = << >>
  /\ SCRAPING_ENABLED \in BOOLEAN
  /\ pc = [t \in Threads |-> IF t = Searcher THEN "sd_idle" ELSE "off"]

Next ==
  \/ StartSearch(Searcher)
  \/ AggLoop(Searcher)
  \/ AggCallSearch(Searcher)
  \/ SearchAfterFetch(Searcher)
  \/ RequestsFallback(Searcher)
  \/ ExtractAndReturn(Searcher)
  \/ AggExtend(Searcher)
  \/ AggSleep(Searcher)
  \/ AggExcept(Searcher)
  \/ AggSort(Searcher)
  \/ ScrapeReturn(Searcher)
  \/ CheckRealDeals(Searcher)
  \/ GenerateDeals(Searcher)
  \/ FinishSearch(Searcher)
  \/ GetDriverCheck(Searcher)
  \/ GetDriverConstruct(Searcher)
  \/ GetDriverSetup(Searcher)
  \/ GetDriverReturn(Searcher)
  \/ CheckDriver(Searcher)
  \/ Navigate(Searcher)
  \/ WaitForPage(Searcher)
  \/ ReadPage(Searcher)
  \/ CleanupCheck(Searcher)
  \/ CleanupQuit(Searcher)
  \/ CleanupFinally(Searcher)
  \/ ResetDriver(Searcher)
  \/ IncrRetry(Searcher)
  \/ Backoff(Searcher)

Spec == Init /\ [][Next]_vars

(* ------------- SpecPoller: one run of the price check job --------------- *)
\* The session whose scheduler runs the job in SpecPoller and SpecTrack.
FirstSession == 1

\* deals.db holds MaxProducts tracked products, each with alerts on or off;
\* one dashboard session is opened and its scheduler runs the job once.
InitPoller ==
  /\ InitFetchSession
  /\ InitSearchVars
  /\ InitPollerVars
  /\ InitExtractVars
  /\ SCRAPING_ENABLED = TRUE
  /\ pc = [t \in Threads |-> "off"]
  /\ products \in ProductTables

NextPoller ==
  \/ OpenSession(FirstSession)
  \/ JobStep(FirstSession)

SpecPoller == InitPoller /\ [][NextPoller]_vars

(* ------- SpecTrack: a dashboard session tracks products ----------------- *)
\* A fresh deals.db; the scraper module is not importable, so every search
\* goes to the generated deals.  One session is opened, products are tracked
\* from it, and the job of its scheduler runs once.
InitTrack ==
  /\ InitFetchSession
  /\ InitSearchVars
  /\ InitPollerVars
  /\ InitExtractVars
  /\ SCRAPING_ENABLED = FALSE
  /\ pc = [t \in Threads |-> "off"]
  /\ products = << >>

NextTrack ==
  \/ OpenSession(FirstSession)
  \/ TrackProduct(FirstSession)
  \/ JobStep(FirstSession)

SpecTrack == InitTrack /\ [][NextTrack]_vars

\* The job thread of the scheduler keeps running until the job returns.
SpecTrackFair == SpecTrack /\ WF_vars(JobStep(FirstSession))

(* ------- SpecRuns: the job runs again and again ------------------------- *)
\* As SpecTrack, and the interval trigger fires the job up to MaxRuns times.
NextRuns ==
  \/ OpenSession(FirstSession)
  \/ TrackProduct(FirstSession)
  \/ JobStep(FirstSession)
  \/ NextInterval(FirstSession)

SpecRuns == InitTrack /\ [][NextRuns]_vars

(* ------- SpecRunsLive: repeated runs over one product, live search ------ *)
InitRunsLive ==
  /\ InitFetchSession
  /\ InitSearchVars
  /\ InitPollerVars
  /\ InitExtractVars
  /\ SCRAPING_ENABLED = TRUE
  /\ pc = [t \in Threads |-> "off"]
  /\ \E target_price \in TargetPrices : products = add_product(<< >>, target_price)

NextRunsLive ==
  \/ OpenSession(FirstSession)
  \/ JobStep(FirstSession)
  \/ NextInterval(FirstSession)

SpecRunsLive == InitRunsLive /\ [][NextRunsLive]_vars

(* ------- SpecSched: dashboard sessions, their schedulers and jobs ------- *)
\* deals.db holds one tracked product; the scraper module is not importable.
\* Sessions are opened and the job of every scheduler runs once.
InitSched ==
  /\ InitFetchSession
  /\ InitSearchVars
  /\ InitPollerVars
  /\ InitExtractVars
  /\ SCRAPING_ENABLED = FALSE
  /\ pc = [t \in Threads |-> "off"]
  /\ \E target_price \in TargetPrices : products = add_product(<< >>, target_price)

NextSched ==
  \E s \in Sessions :
    \/ OpenSession(s)
    \/ JobStep(s)

SpecSched == InitSched /\ [][NextSched]_vars

(* ------- SpecExtract: the retailer searches on results pages ------------ *)
\* Each retailer search is given results pages of up to MaxItems cards; the
\* generator returns the deals of a reply.
InitExtract ==
  /\ InitFetchSession
  /\ InitSearchVars
  /\ InitPollerVars
  /\ InitExtractVars
  /\ SCRAPING_ENABLED = TRUE
  /\ pc = [t \in Threads |-> "off"]
  /\ products = << >>

NextExtract ==
  \/ SearchAmazon
  \/ SearchBestBuy
  \/ SearchWalmart
  \/ ReturnGenerated
  \/ TakeDeals

SpecExtract == InitExtract /\ [][NextExtract]_vars

(* ======================= properties of the fetch ======================== *)
SeqToBag(s) ==
  [x \in {s[i] : i \in 1..Len(s)} |-> Cardinality({i \in 1..Len(s) : s[i] = x})]

InFetchSection(t) == pc[t] \in {"mh_sleep", "mh_read"}
InTeardown(t) == pc[t] \in {"cl_check", "cl_quit", "cl_finally", "mh_reset"}

\* C1: no two fetch calls are between driver.get and the read of page_source
\* at the same moment, whatever the interleaving of the two threads.
C1_FetchesSerialized ==
  Cardinality({t \in Threads : InFetchSection(t)}) <= 1

\* C2: every driver that was constructed and not quit is the one in the
\* shared slot, so there is at most one and none was dropped without quit.
C2_OneLiveHandle ==
  LiveHandles \subseteq {_driver}

\* C3: a fetch call navigates at most 3 times; a call whose 3 attempts failed
\* returns None; and the slot never rests on a driver that cannot answer: a
\* quit or dead driver is in the slot only while a teardown is clearing it,
\* so a later call gets a driver that can return a page.
C3_BoundedRetryKeepsSession ==
  /\ \A t \in Threads :
       /\ navCount[t] <= 3
       /\ retry_count[t] <= 3
       /\ pc[t] = "fetch_ret" /\ retry_count[t] = 3 =>
            fetchResult[t] = NoPage /\ fetchEnd[t] = "exhausted"
       /\ pc[t] = "fetch_ret" /\ fetchEnd[t] = "exhausted" => navCount[t] = 3
  /\ (_driver # None /\ (_driver \in deadSeen \/ handles[_driver] # "live"))
       => \E t \in Threads : InTeardown(t)

\* C3 witness: a thread whose earlier call used up its 3 attempts has a
\* later call that returns page content.
C3_Witness ==
  \E t \in Threads :
    /\ exhaustedBefore[t]
    /\ pc[t] = "fetch_ret"
    /\ fetchEnd[t] = "content"
    /\ fetchResult[t] = PageSource

\* C4: once a construction of the driver has failed, no fetch call attempts
\* to construct a driver again.
C4_NoConstructionAfterFailure ==
  ctorFailed => \A t \in Threads : pc[t] # "gd_construct"

\* C5: a driver on which a call reported a dead session is never passed to
\* driver.get again.
C5_DeadHandleNotNavigated ==
  \A t \in Threads : pc[t] = "mh_get" => driver[t] \notin deadSeen

\* Driver objects constructed so far.  A teardown takes out of the slot a
\* driver that reported a dead session (whether or not its quit succeeds).
BuiltHandles == {h \in Handles : handles[h] # "unbuilt"}

\* Thread t has not made a fetch call yet (its DealScraper may exist).
BeforeFirstFetch(t) ==
  \/ pc[t] = "idle" /\ calls[t] = 0
  \/ pc[t] \in {"off", "sd_idle", "ag_loop", "ag_call"} /\ produced[t] = << >>

\* C25: no driver is constructed before the first fetch call (constructing a
\* DealScraper constructs none); fetch calls made one after the other reuse
\* the driver in the slot, so that without a construction failure every
\* driver constructed after the first follows a teardown; and a fetch that
\* finds the slot empty, as after a teardown, constructs a driver.
C25_LazyReusedHandle ==
  /\ []((\A t \in Threads : BeforeFirstFetch(t)) => BuiltHandles = {})
  /\ [](~ctorFailed =>
          /\ Cardinality(BuiltHandles) <= 1 + Cardinality(deadSeen)
          /\ BuiltHandles \ deadSeen \subseteq {_driver})
  /\ [][\A t \in Threads :
          /\ pc[t] = "gd_check" /\ pc'[t] # "gd_check" =>
               /\ handles' = handles
               /\ pc'[t] = IF _driver = None THEN "gd_construct" ELSE "gd_return"
          /\ handles' # handles /\ pc'[t] # pc[t] =>
               \/ pc[t] = "gd_construct" /\ _driver = None
                    /\ BuiltHandles' = BuiltHandles \cup {_driver'}
                    /\ _driver' \notin BuiltHandles
               \/ pc[t] = "cl_quit" /\ BuiltHandles' = BuiltHandles]_vars

\* C28: when an attempt of a fetch call fails with an exception that is not a
\* WebDriverException, the call returns None at once, with no further attempt
\* (one navigation more than the retries counted so far), and the step that
\* handles the exception leaves the driver slot and every driver as they were.
C28_OtherExceptionReturnsAtOnce ==
  /\ [](\A t \in Threads :
          lastError[t] = "exc" =>
            /\ pc[t] = "fetch_ret"
            /\ fetchResult[t] = NoPage
            /\ fetchEnd[t] = "exception"
            /\ navCount[t] = retry_count[t] + 1)
  /\ [][\A t \in Threads :
          lastError'[t] = "exc" /\ lastError[t] # "exc" =>
            /\ _driver' = _driver
            /\ handles' = handles
            /\ deadSeen' = deadSeen
            /\ retry_count'[t] = retry_count[t]]_vars

\* C28 witness: the second attempt of a call raised such an exception and the
\* call returned None with its third attempt unused and the driver in place.
C28_Witness ==
  \E t \in Threads :
    /\ lastError[t] = "exc"
    /\ pc[t] = "fetch_ret"
    /\ retry_count[t] = 1
    /\ navCount[t] = 2
    /\ _driver = driver[t]
    /\ _driver # None
    /\ handles[_driver] = "live"

\* C29: after an attempt failed with a WebDriverException whose message does
\* not name a dead session, the driver stays in the slot up to the next
\* attempt: nothing is torn down, no driver is constructed, and the next
\* attempt gets the driver the failed attempt used.
C29_TransientErrorKeepsHandle ==
  /\ [](\A t \in Threads :
          lastError[t] = "wd_other" /\ pc[t] # "fetch_ret" =>
            /\ pc[t] \in {"mh_incr", "mh_backoff", "gd_check", "gd_return"}
            /\ _driver = driver[t]
            /\ handles[driver[t]] = "live")
  /\ [][\A t \in Threads :
          lastError[t] = "wd_other" /\ pc[t] = "gd_return" /\ pc'[t] = "mh_check" =>
            driver'[t] = driver[t]]_vars

(* ======================= properties of the search ======================= *)
IsSortedByPrice(s) ==
  \A i, j \in 1..Len(s) : i < j => s[i].price <= s[j].price

RECURSIVE ReturnedDeals(_)
ReturnedDeals(log) ==
  IF log = << >> THEN << >>
  ELSE (IF Head(log).raised THEN << >> ELSE Head(log).deals) \o ReturnedDeals(Tail(log))

\* C6: when search_all_retailers returns, every retailer of the list was
\* searched and the deals of each retailer whose search returned are all in
\* the result, whatever happened to the other retailers.
C6_RetailerFailureIsolated ==
  \A t \in Threads :
    pc[t] = "sp_return" =>
      /\ Len(produced[t]) = Len(retailers)
      /\ \A i \in 1..Len(produced[t]) :
           ~produced[t][i].raised =>
             SeqToBag(produced[t][i].deals) \sqsubseteq SeqToBag(all_deals[t])

\* C6 witness: the search of the first retailer raised and the deals of the
\* second are in the result.
C6_Witness ==
  \E t \in Threads :
    /\ pc[t] = "sp_return"
    /\ produced[t][1].raised
    /\ produced[t][2].deals # << >>
    /\ all_deals[t] = produced[t][2].deals

\* C7: the sequence search_all_retailers returns is ascending by price and a
\* permutation of the deals the retailers returned; the sequence
\* scrape_product_deals returns is its first max_results elements, the
\* cheapest ones.
C7_SortedByPrice ==
  \A t \in Threads :
    /\ pc[t] = "sp_return" =>
         /\ IsSortedByPrice(all_deals[t])
         /\ SeqToBag(all_deals[t]) = SeqToBag(ReturnedDeals(produced[t]))
    /\ pc[t] = "sd_check" =>
         LET got == SeqToBag(ReturnedDeals(produced[t]))
             kept == SeqToBag(real_deals[t])
         IN  /\ IsSortedByPrice(real_deals[t])
             /\ Len(real_deals[t]) =
                  Min(max_results[t], Len(ReturnedDeals(produced[t])))
             /\ kept \sqsubseteq got
             /\ \A d \in BagToSet(got (-) kept) :
                  \A i \in 1..Len(real_deals[t]) : real_deals[t][i].price <= d.price

\* C7 witness: the retailers returned four deals out of price order and the
\* search keeps the three cheapest.
C7_Witness ==
  \E t \in Threads :
    /\ pc[t] = "sd_check"
    /\ ~IsSortedByPrice(ReturnedDeals(produced[t]))
    /\ Len(ReturnedDeals(produced[t])) = 4
    /\ Len(real_deals[t]) = 3
    /\ real_deals[t][1].price < real_deals[t][3].price

\* C8: the search of a retailer never starts while the delay that follows
\* the search of the retailer before it has not elapsed.
C8_DelayBetweenRetailers ==
  \A t \in Threads : pc[t] = "ag_call" => ~needDelay[t]

PayloadOf(text) == SelectSeq(text, LAMBDA tok : tok \in Payloads)[1]

\* C9: a search whose live aggregation came back empty has called the text
\* generation exactly once when it ends, and when the reply parsed, the
\* search returns the deals of the reply.
C9_GeneratorOnce ==
  \A t \in Threads :
    /\ genCalls[t] <= 1
    /\ pc[t] = "sd_done" /\ SCRAPING_ENABLED /\ real_deals[t] = << >> =>
         /\ genCalls[t] = 1
         /\ aiOutcome[t] = "parsed" => result[t] = JsonValue(PayloadOf(raw[t]))

\* C9 witness: both retailers returned no deal and the fenced reply of the
\* generator became the result.
C9_Witness ==
  \E t \in Threads :
    /\ pc[t] = "sd_done"
    /\ Len(produced[t]) = 2
    /\ \A i \in 1..2 : ~produced[t][i].raised /\ produced[t][i].deals = << >>
    /\ aiOutcome[t] = "parsed"
    /\ raw[t][1] = "fence"
    /\ result[t] # << >>

C11_ParseFailureDistinct ==
  \A t \in Threads :
    pc[t] = "sd_done" /\ aiOutcome[t] = "parse_error" => result[t] # << >>

FetchFailed(t) == lastFetch[t].fetch \in {"no_driver", "exhausted", "exception"}

\* The retailer search of t has just left (its deals are not yet added).
RetailerSearchLeft(t) == pc[t] \in {"ag_extend", "ag_except"}

\* C24 as stated: a retailer whose fetch call used up its attempts and
\* returned None contributes no deal and no error.
C24_FetchFailureGivesEmpty ==
  \A t \in Threads :
    RetailerSearchLeft(t) /\ lastFetch[t].fetch = "exhausted" =>
      pc[t] = "ag_extend" /\ deals[t] = << >>

\* C24 amended: a retailer whose fetch call returned None is asked once more
\* with a plain HTTP request; when that request fails too (it raises or the
\* status is not 200) the retailer search returns the empty list and raises
\* nothing, and a retailer with a failed fetch returns deals only from the
\* page of a 200 reply.  Either way the deals gathered from the retailers
\* before it stay as they were.
C24_FetchFailureFallsBack ==
  \A t \in Threads :
    RetailerSearchLeft(t) /\ FetchFailed(t) =>
      /\ lastFetch[t].fallback \in {"raise", "not_200"} =>
           pc[t] = "ag_extend" /\ deals[t] = << >>
      /\ pc[t] = "ag_extend" /\ deals[t] # << >> => lastFetch[t].fallback = "200"
      /\ all_deals[t] =
           ReturnedDeals(SubSeq(produced[t], 1, Len(produced[t]) - 1))

\* C24 witness: the fetch of the second retailer used up its attempts, the
\* plain request was answered with an error status, the retailer returned
\* the empty list and the deals of the first retailer are kept.
C24_Witness ==
  \E t \in Threads :
    /\ pc[t] = "ag_extend"
    /\ idx[t] = 2
    /\ lastFetch[t] = [fetch |-> "exhausted", fallback |-> "not_200"]
    /\ deals[t] = << >>
    /\ all_deals[t] # << >>

\* C26: a live search goes through the retailers in the one fixed order and
\* runs the search (fetch, then extraction) of every retailer the program has
\* an extractor for: Amazon, Walmart and Best Buy.
C26_AllExtractorsSearched ==
  \A t \in Threads :
    pc[t] = "sp_return" =>
      /\ Len(produced[t]) = Len(retailers)
      /\ {retailers[i] : i \in 1..Len(produced[t])} = ExtractorNames

(* ==================== properties of the price check job ================= *)
\* Rows the job of session s inserted for product p.
ObsBy(s, p) ==
  {i \in 1..Len(price_history) :
     /\ price_history[i].caller = "poller"
     /\ price_history[i].session = s
     /\ price_history[i].product_id = p}

AlertsBy(s, p, kind) ==
  {i \in 1..Len(alerts) :
     /\ alerts[i].session = s
     /\ alerts[i].product_id = p
     /\ alerts[i].alert_type = kind}

\* The pass of the loop for entry k of the log of s is behind the insert of
\* the observation / behind the price test / behind the timing test.
RecordDone(s, k) ==
  k < pidx[s] \/ ppc[s] \in {"p_price", "p_timing", "p_tcheck", "p_sleep", "p_except"}
PriceDone(s, k) ==
  k < pidx[s] \/ ppc[s] \in {"p_timing", "p_tcheck", "p_sleep", "p_except"}
TimingDone(s, k) ==
  k < pidx[s] \/ ppc[s] \in {"p_sleep", "p_except"}

\* The deals of lowest price in a list of deals.
Cheapest(ds) ==
  {ds[i] : i \in {i \in 1..Len(ds) : \A j \in 1..Len(ds) : ds[i].price <= ds[j].price}}

\* The price alerts of product p in the run of s are right for a cheapest
\* deal of price cp at retailer r: one alert naming cp and r if cp is at or
\* below the target, none if it is above.
PriceAlertsRight(s, p, cp) ==
  LET mine == AlertsBy(s, p, "price_alert")
  IN  IF cp <= products[p].target_price
      THEN /\ Cardinality(mine) = 1
           /\ \A i \in mine :
                /\ alerts[i].price = cp
                /\ \E j \in ObsBy(s, p) :
                     /\ price_history[j].price = cp
                     /\ price_history[j].retailer = alerts[i].retailer
      ELSE mine = {}

C13_TimingAlertOnlyWaitHigh ==
  \A s \in Sessions :
    \A k \in 1..Len(plog[s]) :
      Cardinality(AlertsBy(s, plog[s][k].product_id, "timing_alert")) =
        IF TimingDone(s, k) /\ plog[s][k].timing = "wait_high" THEN 1 ELSE 0

\* C13 witness: a run has processed a product with a wait / medium result
\* and a product with a wait / high result, and only the second has an alert.
C13_Witness ==
  \E s \in Sessions :
    /\ ppc[s] = "p_end"
    /\ Len(plog[s]) = 2
    /\ plog[s][1].timing = "declined"
    /\ plog[s][2].timing = "wait_high"
    /\ AlertsBy(s, plog[s][1].product_id, "timing_alert") = {}
    /\ AlertsBy(s, plog[s][2].product_id, "timing_alert") # {}

AllAttempted(s) ==
  /\ Len(plog[s]) = Len(batch[s])
  /\ \A k \in 1..Len(batch[s]) : plog[s][k].product_id = batch[s][k].product_id

\* C14: a run of the job that has fetched its products always comes to its
\* end, and at the end the search of every fetched product was started,
\* whatever happened to the products before it.
C14_BatchNeverHalts ==
  \A s \in Sessions :
    (ppc[s] = "p_loop") ~> (ppc[s] = "p_end" /\ AllAttempted(s))

\* C14 witness: the search of the first product raised and the run went on
\* to the second product and ended with every product attempted.
C14_Witness ==
  \E s \in Sessions :
    /\ ppc[s] = "p_end"
    /\ Len(batch[s]) >= 2
    /\ AllAttempted(s)
    /\ plog[s][1].search = "raised"
    /\ plog[s][2].search = "deals"

\* C15: the search of a product never starts while the delay that follows
\* the processing of the product before it has not elapsed.
C15_DelayBetweenProducts ==
  \A s \in Sessions : ppc[s] = "p_search" => ~needPause[s]

\* C16: for a product whose timing analysis gave no well-formed result
\* (None, an empty object, an object with a key missing), once its pass is
\* over there is no timing alert, and its price alert is there exactly when
\* the cheapest price is at or below the target.
C16_MalformedTimingHarmless ==
  \A s \in Sessions :
    \A k \in 1..Len(plog[s]) :
      plog[s][k].timing = "malformed" /\ TimingDone(s, k) =>
        /\ AlertsBy(s, plog[s][k].product_id, "timing_alert") = {}
        /\ Cardinality(ObsBy(s, plog[s][k].product_id)) = 1
        /\ \A j \in ObsBy(s, plog[s][k].product_id) :
             Cardinality(AlertsBy(s, plog[s][k].product_id, "price_alert")) =
               IF price_history[j].price <= products[plog[s][k].product_id].target_price
               THEN 1 ELSE 0

\* C16 witness: the timing test raised on an object with a key missing and
\* the price alert of the product is there.
C16_Witness ==
  \E s \in Sessions :
    /\ ppc[s] = "p_except"
    /\ plog[s][pidx[s]].timing = "malformed"
    /\ AlertsBy(s, Cur(s).product_id, "price_alert") # {}
    /\ AlertsBy(s, Cur(s).product_id, "timing_alert") = {}

\* C17: the job searches, records and alerts only for products whose
\* alert_enabled is set.
C17_OnlyEnabledProducts ==
  /\ \A s \in Sessions : \A k \in 1..Len(plog[s]) :
       products[plog[s][k].product_id].alert_enabled
  /\ \A i \in 1..Len(price_history) :
       price_history[i].caller = "poller" =>
         products[price_history[i].product_id].alert_enabled
  /\ \A i \in 1..Len(alerts) : products[alerts[i].product_id].alert_enabled

\* C17 witness: a run ended with an observation recorded while a product
\* with alert_enabled off is in the table.
C17_Witness ==
  \E s \in Sessions :
    /\ ppc[s] = "p_end"
    /\ \E p \in 1..Len(products) : ~products[p].alert_enabled
    /\ price_history # << >>
    /\ alerts # << >>

\* C18: for each product of a run whose search returned deals there is
\* exactly one observation once the insert is done (none before), it carries
\* retailer and price of a deal of lowest price of the returned list, and an
\* alert of the run for a product is never there without the observation
\* (rows are only ever appended, so the observation came first).
C18_ObservationBeforeAlerts ==
  \A s \in Sessions :
    /\ \A k \in 1..Len(plog[s]) :
         Cardinality(ObsBy(s, plog[s][k].product_id)) =
           IF plog[s][k].search = "deals" /\ RecordDone(s, k) THEN 1 ELSE 0
    /\ ppc[s] \in {"p_price", "p_timing"} =>
         \A j \in ObsBy(s, Cur(s).product_id) :
           \E d \in Cheapest(job_deals[s]) :
             d.retailer = price_history[j].retailer /\ d.price = price_history[j].price
    /\ \A i \in 1..Len(alerts) :
         alerts[i].session = s => ObsBy(s, alerts[i].product_id) # {}

\* C18 witness: the search returned the generated deals, whose cheapest deal
\* is not the first, and the observation and the price alert carry it.
C18_Witness ==
  \E s \in Sessions :
    /\ ppc[s] = "p_timing"
    /\ Len(job_deals[s]) >= 2
    /\ job_deals[s][1].price > job_deals[s][2].price
    /\ \E j \in ObsBy(s, Cur(s).product_id) :
         price_history[j].price = job_deals[s][2].price
    /\ AlertsBy(s, Cur(s).product_id, "price_alert") # {}

IsPrefix(a, b) == Len(a) <= Len(b) /\ SubSeq(b, 1, Len(a)) = a

\* C19 as stated: every row of price_history was inserted by the job after a
\* search, and the table only grows.
C19_HistoryOnlyFromPoller ==
  /\ [](\A i \in 1..Len(price_history) : price_history[i].caller = "poller")
  /\ [][IsPrefix(price_history, price_history')]_vars

\* C19 amended: every row of price_history was inserted either by the job
\* for a product whose search returned deals in that run, or by the dashboard
\* as the first observation of a product when it is tracked; the table only
\* grows, a row at a time.
C19_HistoryAppendOnly ==
  /\ [](\A i \in 1..Len(price_history) :
          LET row == price_history[i]
          IN  \/ /\ row.caller = "poller"
                 /\ \E k \in 1..Len(plog[row.session]) :
                      /\ plog[row.session][k].product_id = row.product_id
                      /\ plog[row.session][k].search = "deals"
              \/ /\ row.caller = "ui"
                 /\ row.product_id \in 1..Len(products)
                 /\ \A j \in 1..(i - 1) : price_history[j].product_id # row.product_id)
  /\ [][\/ price_history' = price_history
        \/ /\ Len(price_history') = Len(price_history) + 1
           /\ IsPrefix(price_history, price_history')]_vars

\* C19 witness: a product has the observation of the dashboard and, behind
\* it, an observation of the job.
C19_Witness ==
  \E i, j \in 1..Len(price_history) :
    /\ i < j
    /\ price_history[i].caller = "ui"
    /\ price_history[j].caller = "poller"
    /\ price_history[i].product_id = price_history[j].product_id

JobInProgress(s) == ppc[s] \notin {"p_none", "p_wait", "p_end"}

\* C20: however many dashboard sessions are opened, at most one run of the
\* price check job is in progress at any moment.
C20_OneJobAtATime ==
  Cardinality({s \in Sessions : JobInProgress(s)}) <= 1

\* C27: a run of the job works on the rows its SELECT returned when it
\* started: while the run is in progress its batch does not change, whatever
\* is added to the products table meanwhile; the products it attempts are
\* those of the batch, in order; and a product tracked during a run is in the
\* batch of the next run, which is read from the table as it is then.
C27_BatchIsSnapshot ==
  /\ [][\A s \in Sessions :
          /\ JobInProgress(s) => batch'[s] = batch[s]
          /\ ppc[s] = "p_wait" /\ ppc'[s] = "p_loop" =>
               batch'[s] = SelectEnabled(products)]_vars
  /\ [](\A s \in Sessions :
          /\ JobInProgress(s) =>
               /\ Len(plog[s]) <= Len(batch[s])
               /\ \A k \in 1..Len(plog[s]) :
                    plog[s][k].product_id = batch[s][k].product_id
          /\ ppc[s] = "p_end" => AllAttempted(s))

\* C27 witness: the second product was tracked while the first run was past
\* the observation of the first product; the first run did not attempt it,
\* the second run did.
C27_Witness ==
  \E s \in Sessions :
    /\ ppc[s] = "p_end"
    /\ runs[s] = 1
    /\ Len(batch[s]) = 2
    /\ \E i, j \in 1..Len(price_history) :
         /\ i < j
         /\ price_history[i].caller = "poller"
         /\ price_history[j].caller = "ui"
         /\ price_history[j].product_id = 2
    /\ Cardinality(ObsBy(s, 1)) = 2
    /\ Cardinality(ObsBy(s, 2)) = 1

\* Observations of product p by the job of s whose price is at or below the
\* target price of p: one per run in which the cheapest price was that low.
DueObs(s, p) ==
  {i \in ObsBy(s, p) : price_history[i].price <= products[p].target_price}

\* The job of s has inserted the observation of p and not yet done the price
\* test on it.
PriceTestPending(s, p) ==
  ppc[s] = "p_price" /\ Cur(s).product_id = p

\* C30: the job does not deduplicate price alerts: over its runs, a product
\* has as many price alerts as there were runs in which its cheapest price
\* was at or below its target, whatever alerts it had before.
C30_PriceAlertEveryRun ==
  \A s \in Sessions : \A p \in 1..Len(products) :
    Cardinality(AlertsBy(s, p, "price_alert")) =
      IF PriceTestPending(s, p) /\ best_deal[s].price <= products[p].target_price
      THEN Cardinality(DueObs(s, p)) - 1
      ELSE Cardinality(DueObs(s, p))

\* C30 witness: two runs found the same cheapest deal at or below the target
\* and the product has two identical price alerts.
C30_Witness ==
  \E s \in Sessions :
    /\ ppc[s] = "p_end"
    /\ runs[s] = 1
    /\ Len(alerts) = 2
    /\ alerts[1] = alerts[2]
    /\ alerts[1].alert_type = "price_alert"
    /\ Cardinality(DueObs(s, 1)) = 2

(* ================= properties of the retailer searches ================== *)
\* The deals of the list a retailer search returned (a None entry is no deal).
ExtractedDeals ==
  IF ex_src \in ExtractorNames
  THEN {ex_out[k] : k \in 1..Len(ex_out)} \ {NoneEntry}
  ELSE {}

\* round(100 * (original - price) / original), halves rounded up
RoundedPercent(price, original) ==
  (200 * (original - price) + original) \div (2 * original)

\* C21: every deal a retailer search returns has original_price >= price and
\* discount_percentage = round(100 * (original_price - price) / original_price)
\* when original_price > 0, else 0, whatever price and listed original price
\* were parsed from the card.
C21_DiscountMatchesPrices ==
  \A d \in ExtractedDeals :
    /\ d.original_price >= d.price
    /\ d.discount_percentage =
         IF d.original_price > 0
         THEN RoundedPercent(d.price, d.original_price) ELSE 0

\* The tier the specification assigns to a discount percentage.
TierOfDiscount(discount) ==
  IF discount < 15 THEN "Fair"
  ELSE IF discount < 30 THEN "Good"
  ELSE "Excellent"

\* C22: every deal a search returns, extracted from a page or generated, has
\* the quality tier that its discount percentage determines.
C22_TierFollowsDiscount ==
  ex_src # "none" =>
    \A k \in 1..Len(ex_out) :
      ex_out[k] # NoneEntry =>
        ex_out[k].deal_quality = TierOfDiscount(ex_out[k].discount_percentage)

\* C23: what a retailer search returns has at most max_results elements and
\* every element is a deal, never a null entry.
C23_ExtractorReturnsDealsOnly ==
  ex_src \in ExtractorNames =>
    /\ Len(ex_out) <= ex_limit
    /\ \A k \in 1..Len(ex_out) :
         /\ ex_out[k] # NoneEntry
         /\ ex_out[k].retailer = ex_src

====
